---- MODULE Spec2Model ----
(***************************************************************************)
(* Price tracker (src/price_tracker.py): the price parser, the retailer    *)
(* price extractor, the used-listing filter, and main()'s run over the     *)
(* ledger kept in prices_state.json.                                       *)
(*                                                                         *)
(* Representation.                                                         *)
(*  - A text (Python str) is a sequence of one-character strings.          *)
(*  - An optional value is a sequence of length 0 (None) or 1 (the value). *)
(*  - A price (Python float) is an integer number of thousandths; the      *)
(*    texts enumerated carry at most three fraction digits.  Comparisons   *)
(*    of percentages are exact (cross-multiplied), binary rounding of      *)
(*    floats is not modelled.                                              *)
(*  - A listing URL is a natural number: its rank in Python's string       *)
(*    order, 0 being the empty string.                                     *)
(***************************************************************************)
EXTENDS Integers, Sequences, FiniteSets, TLC

VARIABLES
    cfg,        \* the configuration main() loads (config.yaml)
    file,       \* the persisted ledger (STATE_FILE)
    state,      \* main()'s in-memory ledger during a run
    pc,         \* main()'s position: "idle" (not running) or "run"
    idx,        \* position in the run: products, then searches, then the save
    runs,       \* number of runs started (time.time() of the run)
    log,        \* the running run's log lines: <<entity id, outcome>>
    last,       \* the last loop iteration: its inputs and what it decided
    alerted,    \* history: the used listings alerted so far, with the run
    samples,    \* history: per product, every sample ever appended
    origin,     \* history: the ledger the first run started from
    firstDoc,   \* history: per search, the page its first run fetched
    unchanged,  \* history: every later run fetched that same page
    call,       \* function harness: the pending call
    ret         \* function harness: <<>> before the call, <<result>> after

vars == <<cfg, file, state, pc, idx, runs, log, last, alerted, samples,
          origin, firstDoc, unchanged, call, ret>>

None == <<>>
Some(x) == <<x>>
IsNone(o) == o = <<>>
Val(o) == o[1]

Milli == 10 * 10 * 10

\* n whole currency units as a price
Units(n) == n * Milli

(***************************************************************************)
(* Texts                                                                   *)
(***************************************************************************)
DigitChars == <<"0", "1", "2", "3", "4", "5", "6", "7", "8", "9">>
Digits == {DigitChars[i] : i \in 1..10}
DigitVal(c) == (CHOOSE i \in 1..10 : DigitChars[i] = c) - 1

\* re.sub(r"[^\d.,]", "", text)
Cleaned(text) == SelectSeq(text, LAMBDA c : c \in Digits \cup {".", ","})

\* str.rfind(c): 0-based index of the last occurrence, -1 when absent
rfind(s, c) ==
    LET hits == {i \in 1..Len(s) : s[i] = c}
    IN  IF hits = {} THEN -1 ELSE (CHOOSE i \in hits : \A j \in hits : j <= i) - 1

\* str.replace(c, r) for a one-character c and a replacement r of length 0 or 1
RECURSIVE replace(_, _, _)
replace(s, c, r) ==
    IF s = <<>> THEN <<>>
    ELSE (IF Head(s) = c THEN r ELSE <<Head(s)>>) \o replace(Tail(s), c, r)

\* the longest run of digits of s starting at position i (possibly empty)
RECURSIVE DigitRun(_, _)
DigitRun(s, i) ==
    IF i > Len(s) \/ s[i] \notin Digits THEN <<>>
    ELSE <<s[i]>> \o DigitRun(s, i + 1)

RECURSIVE IntOf(_)
IntOf(ds) ==
    IF ds = <<>> THEN 0
    ELSE IntOf(SubSeq(ds, 1, Len(ds) - 1)) * 10 + DigitVal(ds[Len(ds)])

\* float("<int>.<frac>") in thousandths (fraction digits past the third dropped)
FloatOf(int, frac) ==
    LET f3 == SubSeq(frac \o <<"0", "0", "0">>, 1, 3)
    IN  IntOf(int) * Milli + IntOf(f3)

\* re.search(r"\d+(?:\.\d+)?", main): the first match, as <<int digits, fraction digits>>
NumberMatch(main) ==
    LET starts == {i \in 1..Len(main) : main[i] \in Digits}
    IN  IF starts = {} THEN None
        ELSE LET i    == CHOOSE k \in starts : \A j \in starts : k <= j
                 int  == DigitRun(main, i)
                 e    == i + Len(int)
                 frac == IF e <= Len(main) /\ main[e] = "." THEN DigitRun(main, e + 1) ELSE <<>>
             IN  Some(<<int, frac>>)

extract_price_number(text) ==
    IF text = <<>> THEN None
    ELSE LET cleaned == Cleaned(text)
         IN  IF cleaned = <<>> THEN None
             ELSE LET last_dot   == rfind(cleaned, ".")
                      last_comma == rfind(cleaned, ",")
                      main == IF last_comma > last_dot
                              THEN replace(replace(cleaned, ".", <<>>), ",", <<".">>)
                              ELSE replace(cleaned, ",", <<>>)
                      m == NumberMatch(main)
                  IN  IF IsNone(m) THEN None ELSE Some(FloatOf(Val(m)[1], Val(m)[2]))

\* pct_drop(old, new) as the exact fraction <<numerator, denominator>>, denominator > 0
pct_drop(old, new) ==
    IF old <= 0 THEN <<0, 1>> ELSE <<(old - new) * 100, old>>

\* drop >= threshold, for a fraction drop and a number threshold
AtLeast(drop, threshold) == drop[1] >= threshold * drop[2]

(***************************************************************************)
(* Retailer price extraction                                               *)
(*                                                                         *)
(* A retailer page is what the scanners of fetch_product_price find in the *)
(* fetched text:                                                           *)
(*   fetch1, fetch2  whether the first / second fetch_text succeeds         *)
(*   regex   group 1 of prod["price_regex"] on the first text, None when   *)
(*           the pattern does not match                                    *)
(*   ld      the raw values after "price" / "lowPrice" / "highPrice" in    *)
(*           the ld+json blobs, in the scan order of jsonld_prices         *)
(*   og      content of the product:price:amount / twitter:data1 meta tag  *)
(*   node    raw text (or attribute) of the first node the selector hits   *)
(***************************************************************************)

\* the longest prefix of s from position i made of digits, "." and ","
RECURSIVE NumRun(_, _)
NumRun(s, i) ==
    IF i > Len(s) \/ s[i] \notin Digits \cup {".", ","} THEN <<>>
    ELSE <<s[i]>> \o NumRun(s, i + 1)

\* group 1 of "?([0-9][0-9\.,]*)"? on a raw value, None when it does not start with a digit
LdCapture(raw) ==
    IF raw # <<>> /\ raw[1] \in Digits THEN Some(NumRun(raw, 1)) ELSE None

RECURSIVE jsonld_prices(_)
jsonld_prices(ld) ==
    IF ld = <<>> THEN <<>>
    ELSE LET c == LdCapture(Head(ld))
             p == IF IsNone(c) THEN None ELSE extract_price_number(Val(c))
         IN  (IF IsNone(p) THEN <<>> ELSE <<Val(p)>>) \o jsonld_prices(Tail(ld))

og_price(og) ==
    IF IsNone(og) THEN None ELSE extract_price_number(Val(og))

MinOf(S) == CHOOSE x \in S : \A y \in S : x <= y

Returns(price) == [exc |-> FALSE, price |-> price]
Raises == [exc |-> TRUE, price |-> None]

\* steps 2 and 3 of fetch_product_price, after the second fetch_text
StructuredThenSelector(prod, page) ==
    LET jl  == jsonld_prices(page.ld)
        pos == {jl[i] : i \in {k \in 1..Len(jl) : jl[k] > 0}}
        og  == og_price(page.og)
    IN  IF jl # <<>> THEN Returns(IF pos # {} THEN Some(MinOf(pos)) ELSE None)
        ELSE IF ~IsNone(og) /\ Val(og) # 0 THEN Returns(og)
        ELSE IF prod.selector /\ ~IsNone(page.node)
             THEN Returns(extract_price_number(Val(page.node)))
        ELSE Returns(None)

fetch_product_price(prod, page) ==
    IF prod.price_regex /\ ~page.fetch1 THEN Raises
    ELSE IF prod.price_regex /\ ~IsNone(page.regex)
         THEN Returns(extract_price_number(Val(page.regex)))
    ELSE IF ~page.fetch2 THEN Raises
    ELSE StructuredThenSelector(prod, page)

(***************************************************************************)
(* Used-listing search                                                     *)
(***************************************************************************)
UpperChars == <<"A", "B", "C", "D", "E", "F", "G", "H", "I", "J", "K", "L", "M",
                "N", "O", "P", "Q", "R", "S", "T", "U", "V", "W", "X", "Y", "Z">>
LowerChars == <<"a", "b", "c", "d", "e", "f", "g", "h", "i", "j", "k", "l", "m",
                "n", "o", "p", "q", "r", "s", "t", "u", "v", "w", "x", "y", "z">>

LowerOf == [c \in {UpperChars[k] : k \in 1..26} |->
               LowerChars[CHOOSE k \in 1..26 : UpperChars[k] = c]]

\* str.lower()
lower(s) == [i \in 1..Len(s) |-> IF s[i] \in DOMAIN LowerOf THEN LowerOf[s[i]] ELSE s[i]]

\* k in S  (substring)
Contains(k, S) ==
    \E i \in 0..(Len(S) - Len(k)) : SubSeq(S, i + 1, i + Len(k)) = k

text_ok(s, includes, excludes) ==
    LET S == lower(s)
    IN  IF includes # <<>> /\ ~(\A i \in 1..Len(includes) : Contains(lower(includes[i]), S))
        THEN FALSE
        ELSE IF excludes # <<>> /\ (\E i \in 1..Len(excludes) : Contains(lower(excludes[i]), S))
        THEN FALSE
        ELSE TRUE

\* A card is what the sub-selectors yield on one item node: the title text ("" when
\* absent), the resolved href (0 when absent) and the price node's text (None when absent).
RECURSIVE extract_items(_)
extract_items(cards) ==
    IF cards = <<>> THEN <<>>
    ELSE LET card  == Head(cards)
             price == IF IsNone(card.price) THEN None ELSE extract_price_number(Val(card.price))
             item  == [title |-> card.title, url |-> card.url, price |-> price]
         IN  (IF card.title # <<>> \/ card.url # 0 THEN <<item>> ELSE <<>>)
                 \o extract_items(Tail(cards))

\* Python truth of an optional number: None and 0 are false
Truthy(o) == ~IsNone(o) /\ Val(o) # 0

\* the body of the loop of search_used_market for one candidate: <<>> or <<result>>
Evaluate(scfg, seen, msrp, c) ==
    IF ~text_ok(c.title, scfg.include_keywords, scfg.exclude_keywords) THEN <<>>
    ELSE IF c.url # 0 /\ c.url \in seen THEN <<>>
    ELSE IF Truthy(scfg.alert_below) /\ ~IsNone(c.price)
            /\ Val(c.price) <= Val(scfg.alert_below)
         THEN <<[title |-> c.title, url |-> c.url, price |-> c.price, reason |-> "ceiling"]>>
    ELSE IF Truthy(msrp) /\ Truthy(scfg.alert_percent_below_msrp) /\ ~IsNone(c.price)
            /\ AtLeast(pct_drop(Val(msrp), Val(c.price)), Val(scfg.alert_percent_below_msrp))
         THEN <<[title |-> c.title, url |-> c.url, price |-> c.price, reason |-> "percent"]>>
    ELSE <<>>

RECURSIVE Results(_, _, _, _)
Results(scfg, seen, msrp, candidates) ==
    IF candidates = <<>> THEN <<>>
    ELSE Evaluate(scfg, seen, msrp, Head(candidates))
             \o Results(scfg, seen, msrp, Tail(candidates))

\* doc: [fetch |-> whether fetch_doc succeeds, cards |-> the item cards of the page]
search_used_market(scfg, seen, msrp, doc) ==
    IF ~doc.fetch THEN [exc |-> TRUE, results |-> <<>>]
    ELSE [exc |-> FALSE, results |-> Results(scfg, seen, msrp, extract_items(doc.cards))]

(***************************************************************************)
(* Texts of the pages and of the configuration                             *)
(***************************************************************************)
T_2_747_00 == <<"2", ",", "7", "4", "7", ".", "0", "0">>
T_2_747_00_eu == <<"2", ".", "7", "4", "7", ",", "0", "0">>
T_usd_1_299 == <<"$", "1", ",", "2", "9", "9">>
T_abc == <<"a", "b", "c">>
T_500 == <<"5", "0", "0">>
T_usd_500 == <<"$", "5", "0", "0", ".", "0", "0">>
T_440 == <<"4", "4", "0">>
T_899 == <<"8", "9", "9">>
T_900 == <<"9", "0", "0">>
T_901 == <<"9", "0", "1">>
T_50 == <<"5", "0">>
T_30 == <<"3", "0">>
T_neg5 == <<"-", "5">>
T_0 == <<"0">>
T_na == <<"n", "/", "a">>
T_usd_2_100 == <<"$", "2", ",", "1", "0", "0", ".", "0", "0">>
T_usd_2_300 == <<"$", "2", ",", "3", "0", "0", ".", "0", "0">>
T_usd_2_000 == <<"$", "2", ",", "0", "0", "0", ".", "0", "0">>
T_usd_1_900 == <<"$", "1", ",", "9", "0", "0", ".", "0", "0">>
T_free == <<"$", "0">>
Title_110L == <<"6", "'", "7", " ", "1", "1", "0", "L">>
Title_90L == <<"6", "'", "7", " ", "s", "u", "r", "f", "b", "o", "a", "r", "d", " ", "9", "0", "L">>
Title_upper == <<"F", "O", "I", "L", " ", "6", "'", "7", " ", "1", "1", "0", "l">>
Kw_67 == <<"6", "'", "7">>
Kw_90L == <<"9", "0", "L">>
Kw_110L == <<"1", "1", "0", "L">>

(***************************************************************************)
(* Configuration (config.yaml).  An optional key is an optional value.     *)
(* send_email is left out: its failures are caught in main() and it        *)
(* touches neither the ledger nor the decisions.                           *)
(***************************************************************************)
MaxRuns == 2
MaxCards == 2
MaxTextLen == 3

HISTORY_KEEP == 300
SEEN_KEEP == 2000
DEFAULT_DROP == 10

PIDS == {"p1", "p2"}
SIDS == {"s1", "s2"}

Product(id, url, rx, sel, drop, base) ==
    [id |-> id, url |-> url, price_regex |-> rx, selector |-> sel,
     drop_percent |-> drop, baseline |-> base]

Search(id, url, inc, exc, below, pct) ==
    [id |-> id, url |-> url, include_keywords |-> inc, exclude_keywords |-> exc,
     alert_below |-> below, alert_percent_below_msrp |-> pct]

Config(ddp, msrp, products, searches) ==
    [default_drop_percent |-> ddp, msrp |-> msrp, products |-> products,
     searches |-> searches]

\* no fixed baseline, no threshold of its own
ProdPlain(id, url) == Product(id, url, TRUE, TRUE, None, None)
\* fixed baseline 1000
ProdFixed(id, url) == Product(id, url, FALSE, FALSE, None, Some(Units(1000)))
\* fixed baseline below zero, own threshold
ProdNegative(id, url) == Product(id, url, FALSE, TRUE, Some(12), Some(Units(0 - 100)))

SearchCeiling(id, url) == Search(id, url, <<Kw_67>>, <<Kw_90L>>, Some(Units(2300)), None)
SearchPercent(id, url) == Search(id, url, <<>>, <<>>, None, Some(20))
SearchBoth(id, url) == Search(id, url, <<Kw_67, Kw_110L>>, <<>>, Some(Units(2000)), Some(20))
SearchZero(id, url) == Search(id, url, <<>>, <<Kw_90L>>, Some(0), Some(0))

Msrp == Some(Units(2747))

ConfigPlain == Config(None, None, <<ProdPlain("p1", "shop-a")>>, <<>>)
ConfigFixed == Config(Some(10), None, <<ProdFixed("p1", "shop-b")>>, <<>>)
ConfigNegative == Config(Some(5), None, <<ProdNegative("p1", "shop-a")>>, <<>>)
ConfigCeiling == Config(None, None, <<>>, <<SearchCeiling("s1", "market")>>)
ConfigPercent == Config(None, Msrp, <<>>, <<SearchPercent("s1", "market")>>)
ConfigOld == Config(None, Msrp, <<>>, <<SearchPercent("s1", "market-old")>>)
ConfigTwoSearches ==
    Config(None, Msrp, <<>>,
           <<SearchCeiling("s1", "market-b"), SearchPercent("s2", "market-b")>>)
ConfigMixed ==
    Config(None, None, <<ProdPlain("p1", "shop-c"), ProdFixed("p2", "shop-c")>>,
           <<SearchCeiling("s1", "market-b")>>)

Configs ==
    {ConfigPlain, ConfigFixed, ConfigNegative, ConfigCeiling, ConfigPercent, ConfigOld,
     ConfigTwoSearches, ConfigMixed}

(***************************************************************************)
(* The pages the tracked URLs serve                                        *)
(***************************************************************************)
Page(f1, f2, rx, ld, og, node) ==
    [fetch1 |-> f1, fetch2 |-> f2, regex |-> rx, ld |-> ld, og |-> og, node |-> node]

PageDown == Page(FALSE, FALSE, None, <<>>, None, None)
PageBlank == Page(TRUE, TRUE, None, <<>>, None, None)
Page500 == Page(TRUE, TRUE, Some(T_usd_500), <<T_440>>, None, Some(T_usd_500))
Page440 == Page(TRUE, TRUE, None, <<T_500, T_440>>, None, None)
Page899 == Page(TRUE, TRUE, None, <<>>, Some(T_899), None)
Page900 == Page(TRUE, TRUE, None, <<T_900>>, None, None)
Page901 == Page(TRUE, TRUE, None, <<T_901>>, Some(T_899), None)

RetailSite(url) ==
    IF url = "shop-a" THEN {PageDown, PageBlank, Page500, Page440}
    ELSE IF url = "shop-b" THEN {PageDown, Page899, Page900, Page901}
    ELSE {PageDown, PageBlank, Page500}

Card(title, url, price) == [title |-> title, url |-> url, price |-> price]

\* URL ranks: 1, 2, 3, 4 sort below and 2011, 2012 above the ranks 11..2009 of AgedSeen
CardCeiling == Card(Title_110L, 1, Some(T_usd_2_300))
CardUpper == Card(Title_upper, 2, Some(T_usd_2_100))
CardExcluded == Card(Title_90L, 3, Some(T_usd_1_900))
CardNoUrl == Card(Title_110L, 0, Some(T_usd_2_000))
CardNoPrice == Card(Title_110L, 4, None)
CardNoise == Card(<<>>, 0, Some(T_usd_1_900))
CardFree == Card(Title_110L, 4, Some(T_free))
CardHigh == Card(Title_110L, 2011, Some(T_usd_2_100))
CardHigher == Card(Title_90L, 2012, Some(T_usd_1_900))

\* the cards of list at the positions in I, in the order of list
Pick(list, I) ==
    LET at == SelectSeq([i \in 1..Len(list) |-> i], LAMBDA i : i \in I)
    IN  [k \in 1..Len(at) |-> list[at[k]]]

DocDown == [fetch |-> FALSE, cards |-> <<>>]
Doc(cards) == [fetch |-> TRUE, cards |-> cards]

\* the pages showing at most n of the cards of list
DocsOf(list, n) ==
    {DocDown} \cup
    {Doc(Pick(list, I)) : I \in {J \in SUBSET (1..Len(list)) : Cardinality(J) <= n}}

Market == DocsOf(<<CardCeiling, CardExcluded, CardNoUrl, CardUpper>>, MaxCards)
MarketOld == DocsOf(<<CardUpper, CardHigh, CardHigher>>, MaxCards)
MarketB == {DocDown, Doc(<<CardUpper>>)}

SearchSite(url) ==
    IF url = "market" THEN Market
    ELSE IF url = "market-old" THEN MarketOld
    ELSE MarketB

(***************************************************************************)
(* The ledger (prices_state.json).  state["products"] and                  *)
(* state["searches"] are total over the ids; an id never processed, and    *)
(* the {} that setdefault leaves for it, are both the empty entry.         *)
(***************************************************************************)
EmptyEntry ==
    [baseline |-> None, history |-> <<>>, last_price |-> None, url |-> None, name |-> None]

EmptySearch == [seen |-> <<>>]

EmptyLedger ==
    [products |-> [p \in PIDS |-> EmptyEntry], searches |-> [s \in SIDS |-> EmptySearch]]

\* load_state: the ledger is read back as it was written
load_state(f) == f

Range(s) == {s[i] : i \in 1..Len(s)}

\* s[-n:]
LastN(s, n) == IF Len(s) <= n THEN s ELSE SubSeq(s, Len(s) - n + 1, Len(s))

\* every URL rank, in Python's string order
UrlOrder == [i \in 1..(SEEN_KEEP + 13) |-> i - 1]

\* sorted(list(S)) for a set of URL ranks: the ranks in rising order, those of S kept
sorted(S) == SelectSeq(UrlOrder, LAMBDA u : u \in S)

\* a ledger one run short of both caps, as 299 runs leave it
AgedHistory ==
    [i \in 1..(HISTORY_KEEP - 1) |-> [t |-> i - HISTORY_KEEP, price |-> Units(901)]]

AgedSeen == [i \in 1..(SEEN_KEEP - 1) |-> i + 10]

AgedLedger ==
    [products |-> [p \in PIDS |->
        IF p = "p1"
        THEN [baseline |-> Some(Units(1000)), history |-> AgedHistory,
              last_price |-> Some(Units(901)), url |-> Some("shop-b"), name |-> Some("p1")]
        ELSE EmptyEntry],
     searches |-> [s \in SIDS |-> IF s = "s1" THEN [seen |-> AgedSeen] ELSE EmptySearch]]

(***************************************************************************)
(* main(): one iteration of the retailer loop                              *)
(***************************************************************************)
\* the baseline following the current price
NewBaseline_reset(prod, st, price) ==
    IF ~IsNone(prod.baseline) THEN Val(prod.baseline) ELSE price

\* lines 271-274: the baseline this run uses and stores
NewBaseline(prod, st, price) ==
    IF ~IsNone(prod.baseline) THEN Val(prod.baseline)
    ELSE IF IsNone(st.baseline) THEN price
    ELSE Val(st.baseline)

\* line 277
drop_needed(c, prod) ==
    IF ~IsNone(prod.drop_percent) THEN Val(prod.drop_percent)
    ELSE IF ~IsNone(c.default_drop_percent) THEN Val(c.default_drop_percent)
    ELSE DEFAULT_DROP

\* the history keeping its oldest samples
Appended_keeps_oldest(hist, sample) ==
    LET all == Append(hist, sample)
    IN  IF Len(all) <= HISTORY_KEEP THEN all ELSE SubSeq(all, 1, HISTORY_KEEP)

\* lines 283-286: hist.append(...); hist[-300:]
Appended(hist, sample) == LastN(Append(hist, sample), HISTORY_KEEP)

\* lines 285-291
Updated(prod, st, price, baseline, now) ==
    [history |-> Appended(st.history, [t |-> now, price |-> price]),
     last_price |-> Some(price),
     baseline |-> Some(baseline),
     url |-> Some(prod.url),
     name |-> Some(prod.id)]

\* the alert firing only above the threshold
RetailFires_strict(baseline, price, needed) ==
    LET drop == pct_drop(baseline, price) IN drop[1] > needed * drop[2]

\* lines 278 and 293
RetailFires(baseline, price, needed) == AtLeast(pct_drop(baseline, price), needed)

NP == Len(cfg.products)
NS == Len(cfg.searches)

\* the failure ending the run
Continue_abort(i) == NP + NS + 2

\* "continue" (lines 263, 267, 317): the failure is logged and the loop goes on
Continue(i) == i + 1

StartRun ==
    /\ pc = "idle"
    /\ runs < MaxRuns
    /\ state' = load_state(file)
    /\ pc' = "run"
    /\ idx' = 1
    /\ runs' = runs + 1
    /\ log' = <<>>
    /\ last' = [kind |-> "start"]
    /\ UNCHANGED <<cfg, file, alerted, samples, origin, firstDoc, unchanged, call, ret>>

ProcessProduct ==
    /\ pc = "run"
    /\ idx <= NP
    /\ LET prod == cfg.products[idx]
           pid  == prod.id
           st   == state.products[pid]
       IN  \E page \in RetailSite(prod.url) :
             \E r \in {fetch_product_price(prod, page)} :
                 IF r.exc \/ IsNone(r.price)
                 THEN /\ log' = Append(log, <<pid, IF r.exc THEN "fetch failed" ELSE "no price">>)
                      /\ last' = [kind |-> "product", id |-> pid, page |-> page, exc |-> r.exc,
                                  price |-> None, before |-> st, after |-> st,
                                  needed |-> 0, fired |-> FALSE]
                      /\ idx' = Continue(idx)
                      /\ UNCHANGED <<state, samples>>
                 ELSE LET price    == Val(r.price)
                          baseline == NewBaseline(prod, st, price)
                          needed   == drop_needed(cfg, prod)
                          new      == Updated(prod, st, price, baseline, runs)
                          fired    == RetailFires(baseline, price, needed)
                      IN  /\ state' = [state EXCEPT !.products[pid] = new]
                          /\ samples' = [samples EXCEPT
                                            ![pid] = Append(@, [t |-> runs, price |-> price])]
                          /\ log' = Append(log, <<pid, IF fired THEN "alert" ELSE "priced">>)
                          /\ last' = [kind |-> "product", id |-> pid, page |-> page,
                                      exc |-> FALSE, price |-> r.price, before |-> st,
                                      after |-> new, needed |-> needed, fired |-> fired]
                          /\ idx' = idx + 1
    /\ UNCHANGED <<cfg, file, pc, runs, alerted, origin, firstDoc, unchanged, call, ret>>

(***************************************************************************)
(* main(): one iteration of the used-search loop                           *)
(***************************************************************************)
\* line 307 and the argument of line 314
MsrpArg(c) ==
    LET msrp == IF IsNone(c.msrp) THEN 0 ELSE Val(c.msrp)
    IN  IF msrp > 0 THEN Some(msrp) ELSE None

\* lines 321-325: the URLs of the matches are added, the empty URL is not
WithMatches(seen, results) ==
    seen \cup {results[i].url : i \in {k \in 1..Len(results) : results[k].url # 0}}

\* the seen list keeping its lowest entries
Persisted_drops_highest(seen) ==
    LET all == sorted(seen)
    IN  IF Len(all) <= SEEN_KEEP THEN all ELSE SubSeq(all, 1, SEEN_KEEP)

\* line 334
Persisted(seen) == LastN(sorted(seen), SEEN_KEEP)

Item(m) == [title |-> m.title, url |-> m.url, price |-> m.price]

ProcessSearch ==
    /\ pc = "run"
    /\ idx > NP
    /\ idx <= NP + NS
    /\ LET scfg   == cfg.searches[idx - NP]
           sid    == scfg.id
           sstate == state.searches[sid]
           seen   == Range(sstate.seen)
       IN  \E doc \in SearchSite(scfg.url) :
             \E r \in {search_used_market(scfg, seen, MsrpArg(cfg), doc)} :
             \E new \in {IF r.exc THEN sstate
                         ELSE [seen |-> Persisted(WithMatches(seen, r.results))]} :
                 /\ state' = [state EXCEPT !.searches[sid] = new]
                 /\ log' = Append(log, <<sid, IF r.exc THEN "search failed"
                                             ELSE IF r.results # <<>> THEN "alert"
                                             ELSE "searched">>)
                 /\ last' = [kind |-> "search", id |-> sid, doc |-> doc, exc |-> r.exc,
                             results |-> r.results, before |-> sstate, after |-> new]
                 /\ alerted' = alerted \cup
                        {[id |-> sid, item |-> Item(r.results[i]), run |-> runs] :
                             i \in 1..Len(r.results)}
                 /\ firstDoc' = IF IsNone(firstDoc[sid])
                                THEN [firstDoc EXCEPT ![sid] = Some(doc)]
                                ELSE firstDoc
                 /\ unchanged' = (unchanged /\ (IsNone(firstDoc[sid]) \/ firstDoc[sid] = Some(doc)))
                 /\ idx' = (IF r.exc THEN Continue(idx) ELSE idx + 1)
    /\ UNCHANGED <<cfg, file, pc, runs, samples, origin, call, ret>>

\* line 336
SaveState ==
    /\ pc = "run"
    /\ idx = NP + NS + 1
    /\ file' = state
    /\ pc' = "idle"
    /\ log' = Append(log, <<"ledger", "saved">>)
    /\ UNCHANGED <<cfg, state, idx, runs, last, alerted, samples, origin, firstDoc,
                   unchanged, call, ret>>

Idle == [fn |-> "none"]

Init ==
    /\ cfg \in Configs
    /\ origin \in (IF cfg = ConfigOld THEN {"aged"}
                   ELSE IF cfg = ConfigFixed THEN {"empty", "aged"}
                   ELSE {"empty"})
    /\ file = (IF origin = "aged" THEN AgedLedger ELSE EmptyLedger)
    /\ state = file
    /\ pc = "idle"
    /\ idx = 0
    /\ runs = 0
    /\ log = <<>>
    /\ last = [kind |-> "start"]
    /\ alerted = {}
    /\ samples = [p \in PIDS |-> file.products[p].history]
    /\ firstDoc = [s \in SIDS |-> None]
    /\ unchanged = TRUE
    /\ call = Idle
    /\ ret = None

Next == StartRun \/ ProcessProduct \/ ProcessSearch \/ SaveState

Spec == Init /\ [][Next]_vars

(***************************************************************************)
(* The functions on their own: a call is drawn, then made                  *)
(***************************************************************************)
Alphabet == {"1", "2", ",", ".", "$"}

Texts ==
    {<<>>, T_abc, T_2_747_00, T_2_747_00_eu, T_usd_1_299, T_neg5, T_usd_500}
        \cup UNION {[1..k -> Alphabet] : k \in 1..MaxTextLen}

ParseCalls == {[fn |-> "parse", text |-> t] : t \in Texts}

ExtractCalls ==
    {[fn |-> "extract", prod |-> Product("p1", "shop-a", rx, sel, None, None),
      page |-> Page(f1, f2, cap, ld, og, node)] :
        rx \in BOOLEAN, sel \in BOOLEAN, f1 \in BOOLEAN, f2 \in BOOLEAN,
        cap \in {None, Some(T_na), Some(T_500)},
        ld \in {<<>>, <<T_0>>, <<T_50, T_30, T_neg5>>},
        og \in {None, Some(T_0), Some(T_440)},
        node \in {None, Some(T_na), Some(T_899)}}

SearchCalls ==
    {[fn |-> "search", scfg |-> scfg, seen |-> seen, msrp |-> msrp, doc |-> doc] :
        scfg \in {SearchCeiling("s1", "market"), SearchPercent("s1", "market"),
                  SearchBoth("s1", "market"), SearchZero("s1", "market")},
        seen \in SUBSET {1, 2},
        msrp \in {None, Msrp},
        doc \in DocsOf(<<CardCeiling, CardUpper, CardExcluded, CardNoUrl, CardNoPrice,
                         CardNoise, CardFree>>, MaxCards)}

CallParse ==
    /\ call.fn = "parse"
    /\ IsNone(ret)
    /\ ret' = Some(extract_price_number(call.text))
    /\ UNCHANGED <<cfg, file, state, pc, idx, runs, log, last, alerted, samples,
                   origin, firstDoc, unchanged, call>>

CallExtract ==
    /\ call.fn = "extract"
    /\ IsNone(ret)
    /\ ret' = Some(fetch_product_price(call.prod, call.page))
    /\ UNCHANGED <<cfg, file, state, pc, idx, runs, log, last, alerted, samples,
                   origin, firstDoc, unchanged, call>>

CallSearch ==
    /\ call.fn = "search"
    /\ IsNone(ret)
    /\ ret' = Some(search_used_market(call.scfg, call.seen, call.msrp, call.doc))
    /\ UNCHANGED <<cfg, file, state, pc, idx, runs, log, last, alerted, samples,
                   origin, firstDoc, unchanged, call>>

InitPure ==
    /\ cfg = ConfigPlain
    /\ origin = "empty"
    /\ file = EmptyLedger
    /\ state = file
    /\ pc = "idle"
    /\ idx = 0
    /\ runs = 0
    /\ log = <<>>
    /\ last = [kind |-> "start"]
    /\ alerted = {}
    /\ samples = [p \in PIDS |-> <<>>]
    /\ firstDoc = [s \in SIDS |-> None]
    /\ unchanged = TRUE
    /\ call \in ParseCalls \cup ExtractCalls \cup SearchCalls
    /\ ret = None

NextPure == CallParse \/ CallExtract \/ CallSearch

SpecPure == InitPure /\ [][NextPure]_vars

(***************************************************************************)
(* Claims about the functions (checked under SpecPure)                     *)
(***************************************************************************)
Parsed == call.fn = "parse" /\ ~IsNone(ret)
Extracted == call.fn = "extract" /\ ~IsNone(ret)
Searched == call.fn = "search" /\ ~IsNone(ret)

\* C1: extract_price_number gives 2747.00 for "2,747.00" and for "2.747,00", 1299.0
\* for "$1,299", and none for "" and for "abc".
C1_ParserExamples ==
    Parsed =>
        /\ (call.text \in {T_2_747_00, T_2_747_00_eu} => Val(ret) = Some(Units(2747)))
        /\ (call.text = T_usd_1_299 => Val(ret) = Some(Units(1299)))
        /\ (call.text \in {<<>>, T_abc} => Val(ret) = None)

\* what the strategies yield on a page, each taken alone
PatternYield(prod, page) ==
    IF prod.price_regex /\ ~IsNone(page.regex)
    THEN extract_price_number(Val(page.regex)) ELSE None

StructuredYield(page) ==
    LET jl  == jsonld_prices(page.ld)
        pos == {v \in Range(jl) : v > 0}
        og  == og_price(page.og)
    IN  IF pos # {} THEN Some(CHOOSE v \in pos : \A w \in pos : v <= w)
        ELSE IF ~IsNone(og) /\ Val(og) > 0 THEN og
        ELSE None

SelectorYield(prod, page) ==
    IF prod.selector /\ ~IsNone(page.node)
    THEN extract_price_number(Val(page.node)) ELSE None

FirstYield(prod, page) ==
    IF ~IsNone(PatternYield(prod, page)) THEN PatternYield(prod, page)
    ELSE IF ~IsNone(StructuredYield(page)) THEN StructuredYield(page)
    ELSE SelectorYield(prod, page)

\* C4: when the fetches succeed, fetch_product_price returns the value of the first
\* strategy that yields one, in the order pattern, structured data, selector, and
\* none only when none of them yields a value.
C4_FirstStrategyWins ==
    (Extracted /\ call.page.fetch1 /\ call.page.fetch2) =>
        /\ ~Val(ret).exc
        /\ Val(ret).price = FirstYield(call.prod, call.page)

\* the keyword filter, as the claim states it
TitlePasses(scfg, title) ==
    /\ \A i \in 1..Len(scfg.include_keywords) :
           Contains(lower(scfg.include_keywords[i]), lower(title))
    /\ \A i \in 1..Len(scfg.exclude_keywords) :
           ~Contains(lower(scfg.exclude_keywords[i]), lower(title))

\* drop of price below reference is at least pct percent
DropAtLeast(reference, price, pct) ==
    IF reference > 0 THEN (reference - price) * 100 >= pct * reference ELSE 0 >= pct

\* the candidate is a match, where Set(o) says that the optional key o is configured
IsMatch(scfg, seen, msrp, c, Set(_)) ==
    /\ TitlePasses(scfg, c.title)
    /\ c.url \notin seen
    /\ \/ Set(scfg.alert_below) /\ ~IsNone(c.price) /\ Val(c.price) <= Val(scfg.alert_below)
       \/ /\ Set(msrp) /\ Set(scfg.alert_percent_below_msrp) /\ ~IsNone(c.price)
          /\ DropAtLeast(Val(msrp), Val(c.price), Val(scfg.alert_percent_below_msrp))

Present(o) == ~IsNone(o)
NonZero(o) == ~IsNone(o) /\ Val(o) # 0

Candidates == extract_items(call.doc.cards)

Matches(Set(_)) ==
    SelectSeq(Candidates, LAMBDA c : IsMatch(call.scfg, call.seen, call.msrp, c, Set))

Returned == [i \in 1..Len(Val(ret).results) |-> Item(Val(ret).results[i])]

\* C5 as stated: the matches are exactly the candidates that pass the keyword filter,
\* are not in the seen set, and meet the ceiling rule or the percent rule, a rule
\* applying whenever its keys are configured.
C5_MatchExactlyWhen ==
    (Searched /\ call.doc.fetch) => Returned = Matches(Present)

\* C5 with 0 read as "not configured": the same, a rule applying when its keys are
\* configured and not zero.
C5_MatchExactlyWhenNonZero ==
    (Searched /\ call.doc.fetch) => Returned = Matches(NonZero)

\* the listing "6'7 surfboard 90L" is discarded and "6'7 110L" at the ceiling is a match
C5_Witness ==
    /\ Searched
    /\ call.scfg = SearchCeiling("s1", "market")
    /\ call.doc = Doc(<<CardCeiling, CardExcluded>>)
    /\ call.seen = {2}
    /\ Returned = <<[title |-> Title_110L, url |-> 1, price |-> Some(Units(2300))]>>

(***************************************************************************)
(* Claims about the runs (checked under Spec)                              *)
(***************************************************************************)
ProductStep == last.kind = "product"
Priced == ProductStep /\ ~IsNone(last.price)
SearchStep == last.kind = "search"

\* the configuration of the entity the last iteration was about
LastProd == cfg.products[CHOOSE i \in 1..NP : cfg.products[i].id = last.id]

\* C2 as stated: from an empty ledger and with the pages unchanged, no listing is
\* alerted in two different runs.
C2_NeverRealerted ==
    (origin = "empty" /\ unchanged) =>
        \A a \in alerted : \A b \in alerted :
            (a.id = b.id /\ a.item = b.item) => a.run = b.run

\* C2 for the URLs in the seen list: a listing alerted in a run has no URL, or its
\* URL was not in the search's seen list when the run began.
C2_SeenNeverAlerted ==
    SearchStep =>
        \A i \in 1..Len(last.results) :
            last.results[i].url = 0 \/ last.results[i].url \notin Range(last.before.seen)

\* second run on the page of the first: the listing alerted then is on the page, met
\* the ceiling, and is not alerted again
C2_Witness ==
    /\ SearchStep
    /\ runs = 2
    /\ unchanged
    /\ cfg = ConfigCeiling
    /\ last.doc = Doc(<<CardCeiling>>)
    /\ last.before.seen = <<1>>
    /\ last.results = <<>>
    /\ \E a \in alerted : a.run = 1 /\ a.item.url = 1

\* C3: without a configured baseline, the stored baseline is the first price
\* extracted for the product, in every later state, whether or not an alert fired.
C3_BaselineIsFirstPrice ==
    \A i \in 1..NP :
        LET prod == cfg.products[i]
            all  == samples[prod.id]
            want == IF all = <<>> THEN None ELSE Some(all[1].price)
        IN  IsNone(prod.baseline) =>
                /\ state.products[prod.id].baseline = want
                /\ (pc = "idle" => file.products[prod.id].baseline = want)

\* first price 500, then 440: the alert fires and the baseline is still 500
C3_Witness ==
    /\ Priced
    /\ IsNone(LastProd.baseline)
    /\ last.before.baseline = Some(Units(500))
    /\ last.price = Some(Units(440))
    /\ last.fired
    /\ state.products[last.id].baseline = Some(Units(500))

\* the threshold and the baseline of the claim, for the last retailer iteration
ClaimedThreshold ==
    IF ~IsNone(LastProd.drop_percent) THEN Val(LastProd.drop_percent)
    ELSE IF ~IsNone(cfg.default_drop_percent) THEN Val(cfg.default_drop_percent)
    ELSE 10

ClaimedBaseline ==
    IF ~IsNone(LastProd.baseline) THEN Val(LastProd.baseline)
    ELSE IF ~IsNone(last.before.baseline) THEN Val(last.before.baseline)
    ELSE Val(last.price)

C7_HistoryKeepsLast300 ==
    /\ \A p \in PIDS :
           LET h == state.products[p].history
               n == Len(samples[p])
           IN  /\ Len(h) = (IF n <= 300 THEN n ELSE 300)
               /\ \A k \in 1..Len(h) : h[k] = samples[p][n - Len(h) + k]
    /\ Priced =>
           LET old == last.before.history
               new == last.after.history
           IN  /\ new[Len(new)].price = Val(last.price)
               /\ Len(new) = (IF Len(old) < 300 THEN Len(old) + 1 ELSE 300)
               /\ \A k \in 1..(Len(new) - 1) : new[k] = old[Len(old) - (Len(new) - 1) + k]
    /\ (ProductStep /\ ~Priced) => last.after.history = last.before.history

\* 301 samples appended, the history holds the last 300
C7_Witness ==
    /\ Priced
    /\ Len(samples[last.id]) = 301
    /\ Len(state.products[last.id].history) = 300
    /\ state.products[last.id].history[1] = samples[last.id][2]

\* C8: no stored baseline is negative.
C8_BaselineNeverNegative ==
    \A p \in PIDS :
        /\ IsNone(state.products[p].baseline) \/ Val(state.products[p].baseline) >= 0
        /\ IsNone(file.products[p].baseline) \/ Val(file.products[p].baseline) >= 0

EntityId(i) == IF i <= NP THEN cfg.products[i].id ELSE cfg.searches[i - NP].id

\* C9: a failed product or search keeps its stored entry, the entities are processed
\* one after the other in configuration order whatever failed before them, the run
\* can always go on to the save, and once it ended the ledger is persisted.
C9_FailuresAreSkipped ==
    /\ pc = "run" =>
           /\ idx \in 1..(NP + NS + 1)
           /\ Len(log) = idx - 1
           /\ \A i \in 1..Len(log) :
                  /\ log[i][1] = EntityId(i)
                  /\ log[i][2] \in {"fetch failed", "no price"} =>
                         state.products[log[i][1]] = file.products[log[i][1]]
                  /\ log[i][2] = "search failed" =>
                         state.searches[log[i][1]] = file.searches[log[i][1]]
    /\ (pc = "idle" /\ runs > 0) =>
           /\ Len(log) = NP + NS + 1
           /\ \A i \in 1..(NP + NS) : log[i][1] = EntityId(i)
           /\ log[NP + NS + 1] = <<"ledger", "saved">>
           /\ file = state
    /\ (ProductStep /\ ~Priced) => last.after = last.before
    /\ (SearchStep /\ last.exc) => last.after = last.before

\* second run: the first product's fetch fails and its entry stays, the second
\* product and the search are processed, the ledger is saved
C9_Witness ==
    /\ cfg = ConfigMixed
    /\ pc = "idle"
    /\ runs = 2
    /\ log[1] = <<"p1", "fetch failed">>
    /\ file.products["p1"].last_price = Some(Units(500))
    /\ log[2] = <<"p2", "alert">>
    /\ log[3] = <<"s1", "alert">>
    /\ log[4] = <<"ledger", "saved">>

Increasing(s) == \A i \in 1..(Len(s) - 1) : s[i] < s[i + 1]

\* C10: every seen list is sorted, free of duplicates and at most 2000 long; a search
\* that was processed holds the old identifiers and the new matches, and an
\* identifier is dropped only beyond 2000, below every identifier kept.
C10_SeenSortedAndCapped ==
    /\ \A s \in SIDS :
           /\ Increasing(state.searches[s].seen) /\ Len(state.searches[s].seen) <= 2000
           /\ Increasing(file.searches[s].seen) /\ Len(file.searches[s].seen) <= 2000
    /\ (SearchStep /\ ~last.exc) =>
           LET old   == Range(last.before.seen)
               new   == Range(last.after.seen)
               added == {last.results[i].url : i \in 1..Len(last.results)} \ {0}
           IN  /\ new \subseteq old \cup added
               /\ \A u \in (old \cup added) \ new :
                      /\ Cardinality(old \cup added) > 2000
                      /\ \A v \in new : u < v
               /\ Cardinality(new) = (IF Cardinality(old \cup added) <= 2000
                                      THEN Cardinality(old \cup added) ELSE 2000)

\* two new identifiers on a list of 1999: the lowest old one is dropped
C10_Witness ==
    /\ SearchStep
    /\ Len(last.before.seen) = 1999
    /\ Len(last.results) = 2
    /\ Len(last.after.seen) = 2000
    /\ last.before.seen[1] \notin Range(last.after.seen)
    /\ last.results[1].url \in Range(last.after.seen)

====
